---- MODULE Spec2Model ----
(***************************************************************************)
(* Model of lib_socks_proxy_2013_10_03/socks_proxy.py: the SOCKS5 client   *)
(* handshake socks_proxy_create_connection and its exact-read helper       *)
(* recv_all_into.                                                          *)
(*                                                                         *)
(* Three specifications share the module:                                   *)
(*   Spec      one call of socks_proxy_create_connection, one source       *)
(*             statement group per action;                                 *)
(*   SpecPair  two calls of socks_proxy_create_connection running          *)
(*             concurrently, each with its own locals and stream;          *)
(*   SpecRecv  one call of recv_all_into over a stream whose reads return  *)
(*             a count (0 = peer closed) or raise.                         *)
(*                                                                         *)
(* Python values are records [t |-> type name, v |-> payload], the payload *)
(* a sequence of integers: the code points of a str, the bytes of a bytes  *)
(* object, the one number of an int / bool / float, empty for None.        *)
(* The address argument is [t |-> type name, items |-> its elements].      *)
(***************************************************************************)
EXTENDS Integers, Sequences, FiniteSets, TLC

VARIABLES
    pc,                    \* position of socks_proxy_create_connection
    address,               \* argument: the target
    timeout,               \* argument: post-handshake timeout, or the default marker
    proxy_timeout,         \* kwargs.get('proxy_timeout')
    proxy_source_address,  \* kwargs.get('proxy_source_address')
    proxy_kwargs,          \* the keyword arguments built for the dial
    script,                \* the bytes the proxy will send on the stream, in order
    sock,                  \* the dial adapter's record and the stream it returned
    outcome,               \* how the call ended: "none", "returned" or an exception type
    reason,                \* error_descr carried by a ConnectSocksProxyError
    r_pc,                  \* position of recv_all_into
    buf,                   \* the caller's bytearray (0 = not yet written)
    view_off,              \* start of the memoryview `buf` inside the bytearray
    view_len,              \* len(buf) of the current memoryview
    recv_res,              \* the local recv_res
    r_total,               \* history: bytes delivered so far by all reads
    r_zero,                \* history: a read returned 0 while bytes were missing
    r_afterZero,           \* history: a read was issued after such a zero-byte read
    r_reads,               \* history: calls of sock.recv so far (counted up to N + 1)
    r_outcome,             \* how recv_all_into ended
    calls                  \* SpecPair: the locals and the stream of each concurrent call

cvars == <<pc, address, timeout, proxy_timeout, proxy_source_address,
           proxy_kwargs, script, sock, outcome, reason>>
rvars == <<r_pc, buf, view_off, view_len, recv_res, r_total, r_zero,
           r_afterZero, r_reads, r_outcome>>
vars == <<cvars, rvars, calls>>

----------------------------------------------------------------------------
(* Bounds *)

\* Largest destination buffer handed to recv_all_into in SpecRecv.
MaxN == 4

----------------------------------------------------------------------------
(* Constants of the source *)

DEFAULT_PROXY_TIMEOUT == 60

\* _CREATE_CONNECTION_DEFAULT_VALUE = object(): a marker equal to nothing else.
CREATE_CONNECTION_DEFAULT_VALUE == [t |-> "object", v |-> <<>>]

----------------------------------------------------------------------------
(* Python values and the library functions the code calls *)

PyVal(t, v) == [t |-> t, v |-> v]
PyStr(cps) == PyVal("str", cps)
PyInt(n) == PyVal("int", <<n>>)

\* isinstance(x, cls) for the classes the code tests; bool is a subclass of int.
isinstance(x, cls) == x.t = cls \/ (cls = "int" /\ x.t = "bool")

\* The number held by an int or bool value.
IntOf(x) == x.v[1]

\* The UTF-8 bytes of one code point (1, 2 or 3 bytes).
Utf8(c) ==
    IF c < 128 THEN <<c>>
    ELSE IF c < 2048 THEN <<192 + (c \div 64), 128 + (c % 64)>>
    ELSE <<224 + (c \div 4096), 128 + ((c \div 64) % 64), 128 + (c % 64)>>

\* str.encode(): the UTF-8 bytes of every code point, in order (the string
\* is split in halves to keep the evaluation shallow).
RECURSIVE encode(_)
encode(s) ==
    IF s = <<>> THEN <<>>
    ELSE IF Len(s) = 1 THEN Utf8(s[1])
    ELSE LET half == Len(s) \div 2
         IN  encode(SubSeq(s, 1, half)) \o encode(SubSeq(s, half + 1, Len(s)))

\* struct: the characters that select byte order, accepted only as the FIRST
\* character of a format string, and the format codes used here with their sizes.
ByteOrderChars == {"@", "=", "<", ">", "!"}
CodeSize(c) == IF c = "B" THEN 1 ELSE 2
FormatCodes == {"B", "H"}

\* One unsigned integer as `size` bytes, most significant first ('!' order).
BigEndian(n, size) == IF size = 1 THEN <<n>> ELSE <<n \div 256, n % 256>>

RECURSIVE PackItems(_, _)
PackItems(codes, args) ==
    IF codes = <<>> THEN <<>>
    ELSE BigEndian(Head(args), CodeSize(Head(codes))) \o PackItems(Tail(codes), Tail(args))

\* The format after its optional leading byte-order character.
FormatBody(fmt) ==
    IF fmt # <<>> /\ Head(fmt) \in ByteOrderChars THEN Tail(fmt) ELSE fmt

\* A format is accepted when every character after the optional leading
\* byte-order character is a format code: a byte-order character anywhere
\* else is "bad char in struct format".
FormatOk(fmt) == \A i \in 1..Len(FormatBody(fmt)) : FormatBody(fmt)[i] \in FormatCodes

\* struct.pack(fmt, *args): [ok |-> TRUE, bytes |-> ...] or, when struct.error
\* is raised (bad format, wrong argument count, number out of range), ok = FALSE.
struct_pack(fmt, args) ==
    LET codes == FormatBody(fmt)
        fits  == /\ FormatOk(fmt)
                 /\ Len(codes) = Len(args)
                 /\ \A i \in 1..Len(codes) :
                        args[i] >= 0 /\ args[i] < 256 ^ CodeSize(codes[i])
    IN  IF fits THEN [ok |-> TRUE, bytes |-> PackItems(codes, args)]
        ELSE [ok |-> FALSE, bytes |-> <<>>]

\* The format string of line 90, character by character.
FmtGreeting == <<"!", "B", "!", "B", "!", "B">>

----------------------------------------------------------------------------
(* The inputs of one call *)

NoneVal == PyVal("none", <<>>)
Absent == PyVal("absent", <<>>)

\* n copies of the code point c.
Rep(n, c) == [i \in 1..n |-> c]

\* Target hostnames: empty, "h", "hé" (2 characters, 3 bytes), 255 and 256
\* ASCII characters, 128 two-byte characters (256 bytes).
Hosts == {<<>>, <<104>>, <<104, 233>>, Rep(255, 97), Rep(256, 97), Rep(128, 233)}

Ports == {-1, 0, 80, 65535, 65536}

Seq2(t, a, b) == [t |-> t, items |-> <<a, b>>]

\* Well-shaped targets: (str, int) as a tuple, and as a list, and with a bool port.
PairAddresses ==
    {Seq2("tuple", PyStr(h), PyInt(p)) : h \in Hosts, p \in Ports}
    \cup {Seq2("list", PyStr(<<104>>), PyInt(80)),
          Seq2("tuple", PyStr(<<104>>), PyVal("bool", <<1>>))}

\* Targets of the wrong shape: not a tuple or list, wrong length, host not a
\* str, port not an int.
OddAddresses ==
    {[t |-> "str", items |-> <<>>],
     [t |-> "none", items |-> <<>>],
     [t |-> "tuple", items |-> <<PyStr(<<104>>)>>],
     [t |-> "list", items |-> <<PyStr(<<104>>), PyInt(80), PyInt(1)>>],
     Seq2("tuple", PyVal("bytes", <<104>>), PyInt(80)),
     Seq2("tuple", NoneVal, PyInt(80)),
     Seq2("tuple", PyInt(80), PyStr(<<104>>)),
     Seq2("tuple", PyStr(<<104>>), PyStr(<<56, 48>>)),
     Seq2("list", PyStr(<<104>>), PyVal("float", <<80>>)),
     Seq2("tuple", PyStr(<<104>>), NoneVal)}

Addresses == PairAddresses \cup OddAddresses

Timeouts == {CREATE_CONNECTION_DEFAULT_VALUE, PyVal("float", <<30>>)}
ProxyTimeouts == {NoneVal, PyVal("float", <<5>>)}
ProxySourceAddresses == {NoneVal, PyVal("tuple", <<0>>)}

\* What the proxy sends: a greeting reply, a command reply header, and the
\* bound address with its port.
GreetingReplies == {<<5, 0>>, <<4, 0>>, <<5, 2>>, <<4, 2>>}
CommandReplies == {<<5, 0>>, <<5, 5>>, <<5, 255>>, <<4, 5>>, <<5, 9>>}
AddressReplies ==
    {<<0, 1>> \o Rep(6, 0),
     <<7, 1>> \o Rep(6, 9),
     <<0, 3, 0>> \o Rep(2, 0),
     <<0, 3, 2>> \o Rep(4, 7),
     <<0, 4>> \o Rep(18, 0),
     <<0, 2>> \o Rep(6, 0),
     <<0, 0>> \o Rep(6, 0)}
Scripts ==
    {g \o <<5, 0>> \o (<<0, 1>> \o Rep(6, 0)) : g \in GreetingReplies}
    \cup {<<5, 0>> \o c \o (<<0, 1>> \o Rep(6, 0)) : c \in CommandReplies}
    \cup {<<5, 0, 5, 0>> \o a : a \in AddressReplies}

\* Before the dial there is no stream.
NoSock ==
    [exists |-> FALSE, dials |-> 0, dial_timeout |-> Absent,
     dial_source_address |-> Absent, keepalive |-> FALSE, timeout |-> Absent,
     io |-> <<>>, pos |-> 0, open |-> FALSE]

NoKwargs == [timeout |-> Absent, source_address |-> Absent]

----------------------------------------------------------------------------
(* socks_proxy_create_connection *)

\* Raise that records the exception and starts the call over.
Raise_Retry(kind) ==
    /\ pc' = "check_address"
    /\ outcome' = kind

\* raise: the call ends with the exception `kind`.
Raise(kind) ==
    /\ pc' = "done"
    /\ outcome' = kind

\* AddressRejected without its last test, the type of the port.
AddressRejected_NoPortTest(a) ==
    \/ ~(a.t \in {"tuple", "list"})
    \/ Len(a.items) # 2
    \/ ~isinstance(a.items[1], "str")

\* The test of lines 65-68: TRUE when ArgSocksProxyError is raised.
AddressRejected(a) ==
    \/ ~(a.t \in {"tuple", "list"})
    \/ Len(a.items) # 2
    \/ ~isinstance(a.items[1], "str")
    \/ ~isinstance(a.items[2], "int")

\* CheckAddress that records the error and carries on with the dial.
CheckAddress_NoAbort ==
    /\ pc = "check_address"
    /\ pc' = "proxy_kwargs"
    /\ outcome' = IF AddressRejected(address) THEN "ArgSocksProxyError" ELSE outcome
    /\ UNCHANGED <<address, timeout, proxy_timeout, proxy_source_address,
                   proxy_kwargs, script, sock, reason, rvars, calls>>

\* Lines 65-71.
CheckAddress ==
    /\ pc = "check_address"
    /\ IF AddressRejected(address)
       THEN Raise("ArgSocksProxyError")
       ELSE pc' = "proxy_kwargs" /\ outcome' = outcome
    /\ UNCHANGED <<address, timeout, proxy_timeout, proxy_source_address,
                   proxy_kwargs, script, sock, reason, rvars, calls>>

\* BuildProxyKwargs without the default of lines 78-79.
BuildProxyKwargs_NoDefault ==
    /\ pc = "proxy_kwargs"
    /\ proxy_kwargs' =
         [timeout |-> IF proxy_timeout # NoneVal THEN proxy_timeout ELSE Absent,
          source_address |-> IF proxy_source_address # NoneVal
                             THEN proxy_source_address ELSE Absent]
    /\ pc' = "dial"
    /\ UNCHANGED <<address, timeout, proxy_timeout, proxy_source_address,
                   script, sock, outcome, reason, rvars, calls>>

\* Lines 73-82.
BuildProxyKwargs ==
    /\ pc = "proxy_kwargs"
    /\ proxy_kwargs' =
         [timeout |-> IF proxy_timeout # NoneVal THEN proxy_timeout
                      ELSE PyVal("float", <<DEFAULT_PROXY_TIMEOUT>>),
          source_address |-> IF proxy_source_address # NoneVal
                             THEN proxy_source_address ELSE Absent]
    /\ pc' = "dial"
    /\ UNCHANGED <<address, timeout, proxy_timeout, proxy_source_address,
                   script, sock, outcome, reason, rvars, calls>>

\* Line 84, the dial adapter returns a connected stream whose timeout is the
\* one it was dialed with.
DialOk ==
    /\ pc = "dial"
    /\ sock' = [sock EXCEPT !.exists = TRUE, !.dials = @ + 1, !.open = TRUE,
                            !.dial_timeout = proxy_kwargs.timeout,
                            !.dial_source_address = proxy_kwargs.source_address,
                            !.timeout = proxy_kwargs.timeout]
    /\ pc' = "keepalive"
    /\ UNCHANGED <<address, timeout, proxy_timeout, proxy_source_address,
                   proxy_kwargs, script, outcome, reason, rvars, calls>>

\* Line 84, the dial adapter fails: its transport error propagates.
DialFail ==
    /\ pc = "dial"
    /\ sock' = [sock EXCEPT !.dials = @ + 1,
                            !.dial_timeout = proxy_kwargs.timeout,
                            !.dial_source_address = proxy_kwargs.source_address]
    /\ Raise("OSError")
    /\ UNCHANGED <<address, timeout, proxy_timeout, proxy_source_address,
                   proxy_kwargs, script, reason, rvars, calls>>

\* Line 85.
SetKeepalive ==
    /\ pc = "keepalive"
    /\ sock' = [sock EXCEPT !.keepalive = TRUE]
    /\ pc' = "greeting_send"
    /\ UNCHANGED <<address, timeout, proxy_timeout, proxy_source_address,
                   proxy_kwargs, script, outcome, reason, rvars, calls>>

\* Lines 89-94: struct.pack is evaluated first; sendall runs only when it
\* returned.  The format '!B!B!B' carries a byte-order character after the
\* first position, so struct.pack raises struct.error and nothing is sent;
\* lines 96-198 are never reached by any call.
GreetingSend ==
    /\ pc = "greeting_send"
    /\ LET packed == struct_pack(FmtGreeting, <<5, 1, 0>>)
       IN  IF packed.ok
           THEN /\ sock' = [sock EXCEPT !.io = Append(@, [op |-> "send", data |-> packed.bytes])]
                /\ pc' = "greeting_recv"
                /\ outcome' = outcome
           ELSE /\ Raise("struct.error")
                /\ sock' = sock
    /\ UNCHANGED <<address, timeout, proxy_timeout, proxy_source_address,
                   proxy_kwargs, script, reason, rvars, calls>>

RecvIdle ==
    /\ r_pc = "idle"
    /\ buf = <<>>
    /\ view_off = 0
    /\ view_len = 0
    /\ recv_res = 0
    /\ r_total = 0
    /\ r_zero = FALSE
    /\ r_afterZero = FALSE
    /\ r_reads = 0
    /\ r_outcome = "none"

\* Lines 52-63: the call as its caller makes it.  The statements before the
\* address test are the call's preconditions (the patch is installed, a proxy
\* address is given) and change nothing; a call starts at the address test.
Init ==
    /\ pc = "check_address"
    /\ address \in Addresses
    /\ timeout \in Timeouts
    /\ proxy_timeout \in ProxyTimeouts
    /\ proxy_source_address \in ProxySourceAddresses
    /\ proxy_kwargs = NoKwargs
    /\ script \in Scripts
    /\ sock = NoSock
    /\ outcome = "none"
    /\ reason = ""
    /\ RecvIdle
    /\ calls = <<>>

Next ==
    \/ CheckAddress
    \/ BuildProxyKwargs
    \/ DialOk
    \/ DialFail
    \/ SetKeepalive
    \/ GreetingSend

Spec == Init /\ [][Next]_vars

----------------------------------------------------------------------------
(* recv_all_into *)

\* sock is the stream of the handshake: recv(buf) places at most len(buf)
\* bytes at the start of buf and returns how many, 0 once the peer has closed.

\* Lines 46-47: the memoryview after `buf = buf[recv_res:]`, which runs only
\* when the previous read delivered something.
\* SlicedOff of a view whose start never moves.
SlicedOff_NoAdvance == view_off

SlicedOff == IF recv_res > 0 THEN view_off + recv_res ELSE view_off

\* SlicedLen of a view whose length never shrinks.
SlicedLen_NoShrink == view_len

SlicedLen == IF recv_res > 0 THEN view_len - recv_res ELSE view_len

\* Line 45: the loop test.
LoopContinues == recv_res < view_len

\* Lines 45-48, one iteration whose sock.recv(buf) returns n: the stream put
\* its next n bytes at the start of the view (n = 0: the peer closed).  The
\* bytes of the stream are numbered 1, 2, 3, ... in the order they arrive.
RecvRead ==
    /\ r_pc = "loop"
    /\ LoopContinues
    /\ \E n \in 0..SlicedLen :
         /\ recv_res' = n
         /\ buf' = [i \in 1..Len(buf) |->
                      IF i > SlicedOff /\ i <= SlicedOff + n
                      THEN r_total + (i - SlicedOff) ELSE buf[i]]
         /\ r_total' = r_total + n
         /\ r_zero' = (r_zero \/ (n = 0 /\ r_total < Len(buf)))
    /\ view_off' = SlicedOff
    /\ view_len' = SlicedLen
    /\ r_afterZero' = (r_afterZero \/ r_zero)
    /\ r_reads' = IF r_reads <= Len(buf) THEN r_reads + 1 ELSE r_reads
    /\ UNCHANGED <<r_pc, r_outcome, cvars, calls>>

\* Lines 45-48, one iteration whose sock.recv(buf) raises (a timeout, a reset,
\* or the TypeError of a socket.socket whose recv takes a size, not a buffer):
\* the exception propagates out of recv_all_into.
RecvRaises ==
    /\ r_pc = "loop"
    /\ LoopContinues
    /\ view_off' = SlicedOff
    /\ view_len' = SlicedLen
    /\ r_afterZero' = (r_afterZero \/ r_zero)
    /\ r_reads' = IF r_reads <= Len(buf) THEN r_reads + 1 ELSE r_reads
    /\ r_pc' = "done"
    /\ r_outcome' = "OSError"
    /\ UNCHANGED <<buf, recv_res, r_total, r_zero, cvars, calls>>

\* Line 45 false: the function returns.
RecvReturn ==
    /\ r_pc = "loop"
    /\ ~LoopContinues
    /\ r_pc' = "done"
    /\ r_outcome' = "returned"
    /\ UNCHANGED <<buf, view_off, view_len, recv_res, r_total, r_zero,
                   r_afterZero, r_reads, cvars, calls>>

ConnIdle ==
    /\ pc = "idle"
    /\ address = Seq2("tuple", PyStr(<<104>>), PyInt(80))
    /\ timeout = CREATE_CONNECTION_DEFAULT_VALUE
    /\ proxy_timeout = NoneVal
    /\ proxy_source_address = NoneVal
    /\ proxy_kwargs = NoKwargs
    /\ script = <<>>
    /\ sock = NoSock
    /\ outcome = "none"
    /\ reason = ""

\* Lines 42-43: a bytearray of length 0..MaxN, the view over all of it.
InitRecv ==
    /\ ConnIdle
    /\ r_pc = "loop"
    /\ buf \in {Rep(n, 0) : n \in 0..MaxN}
    /\ view_off = 0
    /\ view_len = Len(buf)
    /\ recv_res = 0
    /\ r_total = 0
    /\ r_zero = FALSE
    /\ r_afterZero = FALSE
    /\ r_reads = 0
    /\ r_outcome = "none"
    /\ calls = <<>>

NextRecv ==
    \/ RecvRead
    \/ RecvRaises
    \/ RecvReturn

SpecRecv == InitRecv /\ [][NextRecv]_vars

----------------------------------------------------------------------------
(* Two concurrent calls of socks_proxy_create_connection *)

\* Every name the function assigns is a local of the call (lines 59-61, 73-74,
\* 84) and the stream is the one its own dial returned; the module's globals
\* (lines 24, 50) are only read.  A call is the record of its arguments, its
\* locals and its stream; a step of call c is the same statement group as in
\* the single call, on calls[c].
Calls == {1, 2}

PairAddresses2 ==
    {Seq2("tuple", PyStr(<<104>>), PyInt(80)),
     Seq2("tuple", PyStr(Rep(256, 97)), PyInt(80)),
     Seq2("tuple", PyStr(<<104>>), PyStr(<<56, 48>>))}

NewCall(a, t, pt, psa) ==
    [pc |-> "check_address", address |-> a, timeout |-> t, proxy_timeout |-> pt,
     proxy_source_address |-> psa, proxy_kwargs |-> NoKwargs, sock |-> NoSock,
     outcome |-> "none"]

\* Call c becomes rec; the other call is not touched.
SetCall(c, rec) == calls' = [calls EXCEPT ![c] = rec]

\* Lines 65-71.
PairCheckAddress(c) ==
    /\ calls[c].pc = "check_address"
    /\ SetCall(c, IF AddressRejected(calls[c].address)
                  THEN [calls[c] EXCEPT !.pc = "done", !.outcome = "ArgSocksProxyError"]
                  ELSE [calls[c] EXCEPT !.pc = "proxy_kwargs"])
    /\ UNCHANGED <<cvars, rvars>>

\* The keyword arguments of lines 73-82 for the call with record r.
KwargsOf(r) ==
    [timeout |-> IF r.proxy_timeout # NoneVal THEN r.proxy_timeout
                 ELSE PyVal("float", <<DEFAULT_PROXY_TIMEOUT>>),
     source_address |-> IF r.proxy_source_address # NoneVal
                        THEN r.proxy_source_address ELSE Absent]

\* PairBuildProxyKwargs with proxy_kwargs one dictionary of the module, shared
\* by all calls.
PairBuildProxyKwargs_Shared(c) ==
    /\ calls[c].pc = "proxy_kwargs"
    /\ calls' = [d \in Calls |->
                   IF d = c
                   THEN [calls[c] EXCEPT !.proxy_kwargs = KwargsOf(calls[c]), !.pc = "dial"]
                   ELSE [calls[d] EXCEPT !.proxy_kwargs = KwargsOf(calls[c])]]
    /\ UNCHANGED <<cvars, rvars>>

\* Lines 73-82.
PairBuildProxyKwargs(c) ==
    /\ calls[c].pc = "proxy_kwargs"
    /\ SetCall(c, [calls[c] EXCEPT !.proxy_kwargs = KwargsOf(calls[c]), !.pc = "dial"])
    /\ UNCHANGED <<cvars, rvars>>

\* Line 84, the dial adapter returns a stream of this call's own.
PairDialOk(c) ==
    /\ calls[c].pc = "dial"
    /\ SetCall(c, [calls[c] EXCEPT
                     !.pc = "keepalive",
                     !.sock = [@ EXCEPT !.exists = TRUE, !.dials = @ + 1, !.open = TRUE,
                                        !.dial_timeout = calls[c].proxy_kwargs.timeout,
                                        !.dial_source_address =
                                            calls[c].proxy_kwargs.source_address,
                                        !.timeout = calls[c].proxy_kwargs.timeout]])
    /\ UNCHANGED <<cvars, rvars>>

\* Line 84, the dial adapter fails.
PairDialFail(c) ==
    /\ calls[c].pc = "dial"
    /\ SetCall(c, [calls[c] EXCEPT
                     !.pc = "done",
                     !.outcome = "OSError",
                     !.sock = [@ EXCEPT !.dials = @ + 1,
                                        !.dial_timeout = calls[c].proxy_kwargs.timeout,
                                        !.dial_source_address =
                                            calls[c].proxy_kwargs.source_address]])
    /\ UNCHANGED <<cvars, rvars>>

\* Line 85.
PairSetKeepalive(c) ==
    /\ calls[c].pc = "keepalive"
    /\ SetCall(c, [calls[c] EXCEPT !.pc = "greeting_send", !.sock.keepalive = TRUE])
    /\ UNCHANGED <<cvars, rvars>>

\* Lines 89-94.
PairGreetingSend(c) ==
    /\ calls[c].pc = "greeting_send"
    /\ LET packed == struct_pack(FmtGreeting, <<5, 1, 0>>)
       IN  SetCall(c, IF packed.ok
                      THEN [calls[c] EXCEPT
                              !.pc = "greeting_recv",
                              !.sock.io = Append(@, [op |-> "send", data |-> packed.bytes])]
                      ELSE [calls[c] EXCEPT !.pc = "done", !.outcome = "struct.error"])
    /\ UNCHANGED <<cvars, rvars>>

InitPair ==
    /\ ConnIdle
    /\ RecvIdle
    /\ calls \in [Calls -> {NewCall(a, t, pt, psa) :
                              a \in PairAddresses2, t \in Timeouts,
                              pt \in ProxyTimeouts, psa \in ProxySourceAddresses}]

NextPair ==
    \/ \E c \in Calls : PairCheckAddress(c)
    \/ \E c \in Calls : PairBuildProxyKwargs(c)
    \/ \E c \in Calls : PairDialOk(c)
    \/ \E c \in Calls : PairDialFail(c)
    \/ \E c \in Calls : PairSetKeepalive(c)
    \/ \E c \in Calls : PairGreetingSend(c)

SpecPair == InitPair /\ [][NextPair]_vars

----------------------------------------------------------------------------
(* Vocabulary of the properties *)

HexDigits == <<"0", "1", "2", "3", "4", "5", "6", "7", "8", "9",
               "a", "b", "c", "d", "e", "f">>

\* Python's hex() of a byte: "0x" and the lowercase digits without padding.
hex(n) ==
    "0x" \o (IF n >= 16 THEN HexDigits[(n \div 16) + 1] ELSE "")
         \o HexDigits[(n % 16) + 1]

\* Lines 139-158: the reason chosen for a non-zero status byte.
error_descr(status) ==
    CASE status = 1 -> "general failure"
      [] status = 2 -> "connection not allowed by ruleset"
      [] status = 3 -> "network unreachable"
      [] status = 4 -> "host unreachable"
      [] status = 5 -> "connection refused by destination host"
      [] status = 6 -> "TTL expired"
      [] status = 7 -> "command not supported / protocol error"
      [] status = 8 -> "address type not supported"
      [] OTHER -> hex(status)

\* The four structured handshake errors (lines 29-39).
HandshakeErrors ==
    {"ArgSocksProxyError", "FormatSocksProxyError", "AuthSocksProxyError",
     "ConnectSocksProxyError"}

Done == pc = "done"

\* The target is a 2-element tuple/list of a string and an integer.
TargetShapeOk ==
    /\ address.t \in {"tuple", "list"}
    /\ Len(address.items) = 2
    /\ address.items[1].t = "str"
    /\ address.items[2].t \in {"int", "bool"}

HostBytes == encode(address.items[1].v)
PortNumber == IntOf(address.items[2])

\* TargetAddress of the data model: 1..255 encoded bytes, a uint16 port.
TargetWellFormed ==
    /\ TargetShapeOk
    /\ Len(HostBytes) \in 1..255
    /\ PortNumber \in 0..65535

\* The data of the k-th write on the stream, <<>> when there was none.
Sends == SelectSeq(sock.io, LAMBDA e : e.op = "send")
SendData(k) == IF Len(Sends) >= k THEN Sends[k].data ELSE <<>>

\* The proxy's replies as they lie in the script.
GreetingReply == SubSeq(script, 1, 2)
CommandReply == SubSeq(script, 3, 4)
AddressHeader == SubSeq(script, 5, 6)
GreetingAccepted == GreetingReply = <<5, 0>>
CommandAccepted == GreetingAccepted /\ CommandReply = <<5, 0>>

\* A call that dialed the proxy, was given a well-formed target, and ended.
HandshakeEnded == Done /\ sock.exists /\ TargetWellFormed

----------------------------------------------------------------------------
(* Properties *)

\* C1: a zero-byte read before the buffer is full ends recv_all_into with a
\* ConnectSocksProxyError, and no read is issued after the zero-byte read.
C1_ZeroReadIsTerminal ==
    /\ ~r_afterZero
    /\ (r_zero /\ r_pc = "done" => r_outcome = "ConnectSocksProxyError")

\* C2: a call whose dial succeeded ends by returning the stream or by raising
\* one of the four structured handshake errors, never any other error.
C2_OutcomeInTaxonomy ==
    (Done /\ sock.exists) => outcome \in {"returned"} \cup HandshakeErrors

\* C3: a call with a hostname of 256 or more encoded bytes (valid port) whose
\* transport did not fail ends with ArgSocksProxyError, with no byte written
\* to the proxy stream.
C3_LongHostRejected ==
    (/\ Done
     /\ outcome # "OSError"
     /\ TargetShapeOk
     /\ Len(HostBytes) >= 256
     /\ PortNumber \in 0..65535)
        => (outcome = "ArgSocksProxyError" /\ Sends = <<>>)

\* C4: a target that is not a 2-element tuple/list, or whose host is not a
\* string, or whose port is not an integer, is never dialed and sees no read
\* or write, and the call ends with ArgSocksProxyError.
C4_MalformedShapeRejectedBeforeDial ==
    ~TargetShapeOk =>
        /\ sock.dials = 0
        /\ ~sock.exists
        /\ sock.io = <<>>
        /\ sock.pos = 0
        /\ pc \in {"check_address", "done"}
        /\ (Done => outcome = "ArgSocksProxyError")

\* C4 witness: a call with a malformed target has ended with ArgSocksProxyError.
C4_Witness ==
    Done /\ ~TargetShapeOk /\ outcome = "ArgSocksProxyError" /\ sock.dials = 0

\* C5: an empty host or a port outside 0..65535 fails with ArgSocksProxyError
\* before any I/O: the proxy is not dialed and nothing is written.
C5_EmptyHostOrBadPortRejected ==
    (TargetShapeOk /\ (HostBytes = <<>> \/ ~(PortNumber \in 0..65535)))
        => /\ sock.dials = 0
           /\ sock.io = <<>>
           /\ (Done => outcome = "ArgSocksProxyError")

\* C6: after a successful dial with a well-formed target the first thing done
\* on the stream is the write of the 3 bytes 05 01 00, before any read.
C6_GreetingWrittenFirst ==
    HandshakeEnded =>
        /\ sock.io # <<>>
        /\ sock.io[1] = [op |-> "send", data |-> <<5, 1, 0>>]

\* C7: the greeting reply is classified: version other than 5 is a
\* FormatSocksProxyError whatever the method, version 5 with a method other
\* than 0 is an AuthSocksProxyError, 05 00 proceeds to the command request.
C7_GreetingClassified ==
    HandshakeEnded =>
        /\ (GreetingReply[1] # 5 => outcome = "FormatSocksProxyError")
        /\ (GreetingReply[1] = 5 /\ GreetingReply[2] # 0
                => outcome = "AuthSocksProxyError")
        /\ (GreetingAccepted => Len(Sends) >= 2)

\* C8: the command request is 05 01 00 03, the hostname's byte length, the
\* hostname bytes, and the port high byte first: 7 + len(hostname) bytes.
C8_CommandRequestEncoded ==
    (HandshakeEnded /\ GreetingAccepted) =>
        /\ SendData(2) = <<5, 1, 0, 3, Len(HostBytes)>> \o HostBytes
                            \o <<PortNumber \div 256, PortNumber % 256>>
        /\ Len(SendData(2)) = 7 + Len(HostBytes)

\* C9: the command reply header is classified: version other than 5 is a
\* FormatSocksProxyError, 05 00 proceeds to the drain (the address header is
\* read), version 5 with a non-zero status is a ConnectSocksProxyError whose
\* reason is the table entry for 1..8 and the lowercase hex otherwise.
C9_CommandReplyClassified ==
    (HandshakeEnded /\ GreetingAccepted) =>
        /\ (CommandReply[1] # 5 => outcome = "FormatSocksProxyError")
        /\ (CommandReply[1] = 5 /\ CommandReply[2] # 0
                => /\ outcome = "ConnectSocksProxyError"
                   /\ reason = error_descr(CommandReply[2]))
        /\ (CommandReply = <<5, 0>> => sock.pos >= 6)

\* C10: after the address header the drain consumes 4 + 2 bytes for ATYP 1,
\* 1 + L + 2 for ATYP 3 with length byte L, 16 + 2 for ATYP 4, and for any
\* other ATYP fails with FormatSocksProxyError having read nothing more.
C10_DrainLength ==
    (HandshakeEnded /\ CommandAccepted) =>
        LET atyp == AddressHeader[2]
        IN  /\ (atyp = 1 => sock.pos = 6 + 4 + 2)
            /\ (atyp = 3 => sock.pos = 6 + 1 + script[7] + 2)
            /\ (atyp = 4 => sock.pos = 6 + 16 + 2)
            /\ (~(atyp \in {1, 3, 4})
                    => outcome = "FormatSocksProxyError" /\ sock.pos = 6)

\* The proxy's script is a complete successful reply: greeting 05 00, command
\* header 05 00, an address header with ATYP 1, 3 or 4.
SuccessScript == CommandAccepted /\ AddressHeader[2] \in {1, 3, 4}

\* The length of the handshake reply in a successful script: three 2-byte
\* headers, the bound address for its type, the 2-byte port.
HandshakeReplyLen ==
    6 + (CASE AddressHeader[2] = 1 -> 4
           [] AddressHeader[2] = 3 -> 1 + script[7]
           [] AddressHeader[2] = 4 -> 16
           [] OTHER -> 0) + 2

\* The call ended by raising.
Failed == Done /\ outcome # "returned"

\* C11: on a well-formed successful reply sequence the call returns the dialed
\* stream having consumed exactly the bytes of the handshake reply.
C11_SuccessConsumesExactly ==
    (HandshakeEnded /\ SuccessScript) =>
        /\ outcome = "returned"
        /\ sock.pos = HandshakeReplyLen

\* C12: on handshake success a caller-supplied post-handshake timeout is set
\* on the negotiated stream, which is then returned; with none supplied the
\* stream is returned with the timeout it was dialed with.
C12_PostHandshakeTimeoutOnStream ==
    (HandshakeEnded /\ SuccessScript) =>
        /\ outcome = "returned"
        /\ sock.timeout = IF timeout # CREATE_CONNECTION_DEFAULT_VALUE
                          THEN timeout ELSE sock.dial_timeout

\* C13: a call that fails after the proxy stream was dialed has closed the
\* stream: no failed call leaves its dialed stream open.
C13_FailureClosesStream ==
    (Failed /\ sock.exists) => ~sock.open

\* The state of the handshake state machine, read off the call's position:
\* INIT until the dial returned, DIALED from then until the greeting reply is
\* accepted, FAILED once the call raised, READY once it returned.
HState ==
    IF outcome = "returned" THEN "READY"
    ELSE IF pc = "done" THEN "FAILED"
    ELSE IF pc \in {"check_address", "proxy_kwargs", "dial"} THEN "INIT"
    ELSE IF pc \in {"keepalive", "greeting_send", "greeting_recv"} THEN "DIALED"
    ELSE IF pc \in {"command_send", "command_recv"} THEN "GREETED"
    ELSE "COMMAND_ACKED"

HRank(s) ==
    CASE s = "INIT" -> 0
      [] s = "DIALED" -> 1
      [] s = "GREETED" -> 2
      [] s = "COMMAND_ACKED" -> 3
      [] s = "READY" -> 4
      [] s = "FAILED" -> 5

\* One step of the state machine: stay, move to the next state, or fail from
\* a non-terminal state.
HForward(s, t) ==
    \/ t = s
    \/ HRank(s) < 4 /\ HRank(t) = HRank(s) + 1
    \/ HRank(s) < 4 /\ t = "FAILED"

C15_DialedOnceWithOptions ==
    /\ sock.dials <= 1
    /\ (TargetShapeOk /\ (Done \/ sock.exists) => sock.dials = 1)
    /\ (sock.dials = 1 =>
          /\ sock.dial_timeout = IF proxy_timeout # NoneVal THEN proxy_timeout
                                 ELSE PyVal("float", <<60>>)
          /\ sock.dial_source_address = IF proxy_source_address # NoneVal
                                        THEN proxy_source_address ELSE Absent)
    /\ (pc \in {"greeting_send", "greeting_recv"} \/ sock.io # <<>>
          => sock.keepalive)
    /\ (Done /\ sock.exists => sock.keepalive)

\* C15 witness: a call without proxy_timeout and without proxy_source_address
\* has dialed with 60.0 and no source address, and stands before the greeting
\* write with keep-alive on.
C15_Witness ==
    /\ pc = "greeting_send"
    /\ proxy_timeout = NoneVal
    /\ proxy_source_address = NoneVal
    /\ sock.dials = 1
    /\ sock.dial_timeout = PyVal("float", <<60>>)
    /\ sock.dial_source_address = Absent
    /\ sock.keepalive

C18_ExactReadAssembles ==
    (~r_zero /\ r_outcome # "OSError") =>
        /\ r_total <= Len(buf)
        /\ \A i \in 1..Len(buf) : buf[i] = IF i <= r_total THEN i ELSE 0
        /\ (r_pc = "loop" => (LoopContinues <=> r_total < Len(buf)))
        /\ (r_outcome = "returned" => r_total = Len(buf))
        /\ r_reads <= r_total
        /\ (Len(buf) = 0 => r_reads = 0)

\* C18 witness: a buffer of 3 or more bytes was filled one byte per read and
\* recv_all_into returned.
C18_Witness ==
    /\ r_outcome = "returned"
    /\ Len(buf) >= 3
    /\ r_reads = Len(buf)
    /\ buf[Len(buf)] = Len(buf)

\* C19: the view handed to every read has length N minus the bytes delivered
\* by all earlier reads, so one exact-read never takes more than N bytes.
C19_ViewIsRemainder ==
    /\ r_total <= Len(buf)
    /\ (r_pc = "loop" /\ LoopContinues => SlicedLen = Len(buf) - r_total)
    /\ (r_reads > 0 /\ r_outcome # "OSError"
          => view_len = Len(buf) - (r_total - recv_res))
    /\ (r_outcome = "OSError" => view_len = Len(buf) - r_total)

\* C19 witness: after two or more reads the buffer is still not full and the
\* next read is about to be handed a shorter view.
C19_Witness ==
    /\ r_pc = "loop"
    /\ LoopContinues
    /\ r_reads >= 2
    /\ r_total > 0
    /\ SlicedLen < Len(buf)

\* How a call with the arguments of record r ends when it runs alone, its
\* dial succeeding exactly when r has a stream.
SoloOutcome(r) ==
    IF AddressRejected(r.address) THEN "ArgSocksProxyError"
    ELSE IF ~r.sock.exists THEN "OSError"
    ELSE "struct.error"

\* The timeout of the stream of such a call: the one it was dialed with.
SoloStreamTimeout(r) ==
    IF r.proxy_timeout # NoneVal THEN r.proxy_timeout ELSE PyVal("float", <<60>>)

OtherCall(c) == 3 - c

====
